---- MODULE Spec2Model ----
(***************************************************************************)
(* State-machine model of the cc-casino program                           *)
(* (src/programs/cc-casino/src).  Every instruction of the #[program]      *)
(* module is one action.  An instruction is modelled in three layers, as   *)
(* the framework runs it: the #[derive(Accounts)] validation, the handler  *)
(* body working on the loaded accounts, and the commit of the accounts,    *)
(* which happens only when the handler returned Ok.                        *)
(*                                                                         *)
(* Widths: TLC integers are 32 bit, so the u64 and u32 ranges are scaled   *)
(* to 2^WordBits and 2^HalfBits; the basis-point constants, the byte       *)
(* ranges and the 32-bit random word of a seed are kept exactly.           *)
(***************************************************************************)
EXTENDS Integers, Sequences, FiniteSets, TLC

VARIABLES games, bets, rounds, participants, pulls, tokens, lamports, now,
          overflow_checks, lastResult

vars == <<games, bets, rounds, participants, pulls, tokens, lamports, now,
          overflow_checks, lastResult>>

(***************************************************************************)
(* Bounds of the model                                                     *)
(***************************************************************************)
WordBits == 24
HalfBits == 21
MaxTime == 2

U64Mod == 2 ^ WordBits
U32Mod == 2 ^ HalfBits

Wallets == {"auth", "vrf", "alice", "bob"}
Players == {"alice", "bob"}
Slugs == {"g1"}

\* The smallest stake whose product with the default win multiplier 19600
\* no longer fits the (scaled) u64 range.
BigBet == (U64Mod \div 19600) + 1

(***************************************************************************)
(* state.rs: enums                                                         *)
(***************************************************************************)
GameType == {"CoinFlip", "Crash", "Jackpot", "Gacha"}
CoinChoice == {"Heads", "Tails"}
BetOutcome == {"Pending", "Win", "Lose"}
RoundPhase == {"Betting", "Active", "Ended"}

\* `choice as u8`: the discriminant of CoinChoice
ChoiceAsU8(c) == IF c = "Heads" THEN 0 ELSE 1

(***************************************************************************)
(* Seeds: 32 bytes, indexed 0..31 as in the source.                        *)
(***************************************************************************)
ByteVals == {0, 189, 190, 240, 241, 252, 253, 255}

Seed(a, m, z) == [i \in 0..31 |-> IF i = 0 THEN a ELSE IF i <= 8 THEN m ELSE z]

ZeroSeed == [i \in 0..31 |-> 0]

(***************************************************************************)
(* Machine arithmetic.  A result is [ok, v]; ok = FALSE is a panic.        *)
(***************************************************************************)
Val(x) == [ok |-> TRUE, v |-> x]
Panic == [ok |-> FALSE, v |-> 0]

\* (a * b) mod m without leaving the 32-bit range of TLC's integers
RECURSIVE MulMod(_, _, _)
MulMod(a, b, m) ==
    IF b = 0 THEN 0
    ELSE LET h == MulMod(a, b \div 2, m)
             d == (2 * h) % m
         IN IF b % 2 = 1 THEN (d + (a % m)) % m ELSE d

MulOverflows(a, b, m) == a # 0 /\ b > (m - 1) \div a

\* the operators `*`, `-`, `+` of a u64: overflow panics in a build with
\* overflow-checks and wraps in a build without
MulU64(chk, a, b) ==
    IF MulOverflows(a, b, U64Mod)
    THEN IF chk THEN Panic ELSE Val(MulMod(a, b, U64Mod))
    ELSE Val(a * b)

SubU64(chk, a, b) ==
    IF a < b
    THEN IF chk THEN Panic ELSE Val(a - b + U64Mod)
    ELSE Val(a - b)

\* u64::checked_add(..).unwrap(): panics on overflow in every build
CheckedAddUnwrap(a, b) == IF a + b >= U64Mod THEN Panic ELSE Val(a + b)

\* u64::checked_mul(..).unwrap()
CheckedMulUnwrap(a, b) == IF MulOverflows(a, b, U64Mod) THEN Panic ELSE Val(a * b)

\* `+` of a u32
AddU32(chk, a, b) ==
    IF a + b >= U32Mod
    THEN IF chk THEN Panic ELSE Val((a + b) % U32Mod)
    ELSE Val(a + b)

(***************************************************************************)
(* The accounts an instruction works on, as one record, and its outcome.   *)
(***************************************************************************)
Accounts == [games |-> games, bets |-> bets, rounds |-> rounds,
             participants |-> participants, pulls |-> pulls,
             tokens |-> tokens, lamports |-> lamports]

Done(s) == [err |-> "Ok", st |-> s]
Fail(s, e) == [err |-> e, st |-> s]

\* A failed instruction (an Err or a panic) aborts the transaction: none of
\* the account writes or transfers it made are kept.
CommitNoRollback(pre, out) == out.st

Commit(pre, out) == IF out.err = "Ok" THEN out.st ELSE pre

TransferNoDebit(s, from, to, amount) ==
    IF s.tokens[from] < amount
    THEN Fail(s, "InsufficientFunds")
    ELSE Done([s EXCEPT !.tokens[to] = @ + amount])

\* token::transfer(from, to, amount): fails when `from` holds less
Transfer(s, from, to, amount) ==
    IF s.tokens[from] < amount
    THEN Fail(s, "InsufficientFunds")
    ELSE Done([s EXCEPT !.tokens = [[s.tokens EXCEPT ![from] = @ - amount]
                                        EXCEPT ![to] = @ + amount]])

\* system_program::transfer(from, to, lamports)
SystemTransfer(s, from, to, amount) ==
    IF s.lamports[from] < amount
    THEN Fail(s, "InsufficientLamports")
    ELSE Done([s EXCEPT !.lamports = [[s.lamports EXCEPT ![from] = @ - amount]
                                          EXCEPT ![to] = @ + amount]])

(***************************************************************************)
(* state.rs: seed -> outcome functions                                     *)
(***************************************************************************)
\* u32::from_le_bytes of the first four seed bytes, as two 16-bit halves
\* <<low, high>> (the value itself exceeds TLC's integers)
RandomU32(vrf_result) ==
    <<vrf_result[0] + 256 * vrf_result[1], vrf_result[2] + 256 * vrf_result[3]>>

\* Exact unsigned arithmetic on four limbs of 16 bits, least significant first
Limb == 65536
Big(lo, hi) == <<lo, hi, 0, 0>>

BigMulSmall(x, m) ==
    LET p1 == x[1] * m
        p2 == x[2] * m + (p1 \div Limb)
        p3 == x[3] * m + (p2 \div Limb)
        p4 == x[4] * m + (p3 \div Limb)
    IN <<p1 % Limb, p2 % Limb, p3 % Limb, p4 % Limb>>

BigSub(x, y) ==
    LET d1 == x[1] - y[1]
        b1 == IF d1 < 0 THEN 1 ELSE 0
        d2 == x[2] - y[2] - b1
        b2 == IF d2 < 0 THEN 1 ELSE 0
        d3 == x[3] - y[3] - b2
        b3 == IF d3 < 0 THEN 1 ELSE 0
        d4 == x[4] - y[4] - b3
    IN <<d1 + b1 * Limb, d2 + b2 * Limb, d3 + b3 * Limb, d4>>

BigLeq(x, y) ==
    IF x[4] # y[4] THEN x[4] < y[4]
    ELSE IF x[3] # y[3] THEN x[3] < y[3]
    ELSE IF x[2] # y[2] THEN x[2] < y[2]
    ELSE x[1] <= y[1]

BigShl(x, k) ==
    IF k > 10 THEN BigMulSmall(BigMulSmall(x, 1024), 2 ^ (k - 10))
    ELSE BigMulSmall(x, 2 ^ k)

\* floor(n / d) by binary long division, for quotients below 2^21
RECURSIVE BigDivLoop(_, _, _, _)
BigDivLoop(rem, d, k, q) ==
    IF k < 0 THEN q
    ELSE LET sh == BigShl(d, k)
         IN IF BigLeq(sh, rem) THEN BigDivLoop(BigSub(rem, sh), d, k - 1, q + 2 ^ k)
            ELSE BigDivLoop(rem, d, k - 1, q)

BigDiv(n, d) == BigDivLoop(n, d, 20, 0)

Clamp(x, lo, hi) == IF x < lo THEN lo ELSE IF x > hi THEN hi ELSE x

\* calculate_crash_point.  normalized = random / u32::MAX, adjusted =
\* normalized * 0.97, crash = 0.99 / (1 - adjusted), crash_bps = crash * 10000
\* truncated; in exact arithmetic crash_bps = 990000*MAX / (100*MAX - 97*random).
\* The f64 roundings of the source are not modelled.
calculate_crash_point(vrf_result) ==
    LET random == RandomU32(vrf_result)
        r == Big(random[1], random[2])
        max == Big(65535, 65535)
        num == BigMulSmall(BigMulSmall(max, 9900), 100)
        den == BigSub(BigMulSmall(max, 100), BigMulSmall(r, 97))
        crash_bps == BigDiv(num, den)
    IN IF random = <<0, 0>> THEN 100
       ELSE Clamp(crash_bps, 10000, 1000000)

\* calculate_jackpot_winner: random % total_tickets; a zero divisor panics
calculate_jackpot_winner(vrf_result, total_tickets) ==
    LET random == RandomU32(vrf_result)
        t == total_tickets
    IN IF t = 0 THEN Panic
       ELSE Val((MulMod(random[2] % t, Limb % t, t) + (random[1] % t)) % t)

\* PrizeTier as u8
Common == 0
Rare == 1
Epic == 2
Legendary == 3

\* PrizeTier::from_random
from_random(random) ==
    IF random <= 189 THEN Common
    ELSE IF random <= 240 THEN Rare
    ELSE IF random <= 252 THEN Epic
    ELSE Legendary

\* PrizeTier::multiplier_bps
multiplier_bps(tier) ==
    IF tier = Common THEN 5000
    ELSE IF tier = Rare THEN 20000
    ELSE IF tier = Epic THEN 50000
    ELSE 100000

(***************************************************************************)
(* initialize.rs                                                           *)
(***************************************************************************)
GameConfig(min, max, edge, fee) ==
    [min_bet |-> min, max_bet |-> max, house_edge_bps |-> edge,
     platform_fee_lamports |-> fee]

\* The configurations initialize_game is called with.  The handler checks
\* none of the fields, so the set holds configurations of every kind.
Configs ==
    { GameConfig(2, BigBet, 200, 1),
      GameConfig(0, 20, 10000, 0),
      GameConfig(0, 20, 10001, 1),
      GameConfig(5, 2, 200, 0) }

\* #[account(init, seeds = [b"game", slug])]
InitializeGame(s, g) ==
    IF g \in DOMAIN s.games THEN "AccountInUse" ELSE "Ok"

initialize_handler(s, authority, game_type, g, config) ==
    Done([s EXCEPT !.games = g :> [authority |-> authority,
                                    game_type |-> game_type,
                                    config |-> config,
                                    is_active |-> TRUE,
                                    total_volume |-> 0,
                                    total_fees |-> 0,
                                    current_round |-> 0,
                                    created_at |-> now] @@ @])

(***************************************************************************)
(* fund.rs, withdraw.rs                                                    *)
(***************************************************************************)
FundPool(s, authority, g) ==
    IF g \notin DOMAIN s.games THEN "AccountNotInitialized"
    ELSE IF s.games[g].authority # authority THEN "Unauthorized"
    ELSE "Ok"

fund_handler(s, authority, g, amount) == Transfer(s, authority, g, amount)

WithdrawFeesAnySigner(s, authority, g) ==
    IF g \notin DOMAIN s.games THEN "AccountNotInitialized" ELSE "Ok"

WithdrawFees(s, authority, g) ==
    IF g \notin DOMAIN s.games THEN "AccountNotInitialized"
    ELSE IF s.games[g].authority # authority THEN "Unauthorized"
    ELSE "Ok"

withdraw_handler(s, authority, g, amount) == Transfer(s, g, authority, amount)

(***************************************************************************)
(* coinflip.rs                                                             *)
(***************************************************************************)
PlayCoinflipReinit(s, player, g) ==
    IF g \notin DOMAIN s.games THEN "AccountNotInitialized"
    ELSE IF ~s.games[g].is_active THEN "GameNotActive"
    ELSE IF s.games[g].game_type # "CoinFlip" THEN "GameNotActive"
    ELSE "Ok"

\* init constraints run first, then the constraints of the other accounts
PlayCoinflip(s, player, g) ==
    IF g \notin DOMAIN s.games THEN "AccountNotInitialized"
    ELSE IF <<g, player>> \in DOMAIN s.bets THEN "AccountInUse"
    ELSE IF ~s.games[g].is_active THEN "GameNotActive"
    ELSE IF s.games[g].game_type # "CoinFlip" THEN "GameNotActive"
    ELSE "Ok"

WinPayoutZero(chk, bet_amount, house_edge_bps) == Val(0)

\* multiplier = 20000 - (house_edge * 2); (bet_amount * multiplier) / 10000
WinPayout(chk, bet_amount, house_edge_bps) ==
    LET multiplier == SubU64(chk, 20000, house_edge_bps * 2)
        product == IF multiplier.ok THEN MulU64(chk, bet_amount, multiplier.v)
                   ELSE Panic
    IN IF product.ok THEN Val(product.v \div 10000) ELSE Panic

play_handler(s, chk, player, g, bet_amount, choice) ==
    LET game == s.games[g]
        config == game.config
        potential_payout == WinPayout(chk, bet_amount, config.house_edge_bps)
        paid == Transfer(s, player, g, bet_amount)
        fee == config.platform_fee_lamports
        feed == SystemTransfer(paid.st, player, g, fee)
        bet == [player |-> player, game |-> g, round_number |-> 0,
                bet_amount |-> bet_amount, fee_amount |-> fee,
                bet_choice |-> ChoiceAsU8(choice), outcome |-> "Pending",
                payout_amount |-> 0, vrf_result |-> ZeroSeed,
                bet_at |-> now, resolved_at |-> 0]
        recorded == [feed.st EXCEPT !.bets = <<g, player>> :> bet @@ @]
        volume == CheckedAddUnwrap(game.total_volume, bet_amount)
        fees == CheckedAddUnwrap(game.total_fees, fee)
    IN IF bet_amount < config.min_bet THEN Fail(s, "BetTooSmall")
       ELSE IF bet_amount > config.max_bet THEN Fail(s, "BetTooLarge")
       ELSE IF ~potential_payout.ok THEN Fail(s, "Panic")
       ELSE IF s.tokens[g] < potential_payout.v THEN Fail(s, "InsufficientEscrow")
       ELSE IF paid.err # "Ok" THEN paid
       ELSE IF feed.err # "Ok" THEN feed
       ELSE IF ~volume.ok THEN Fail(recorded, "Panic")
       ELSE IF ~fees.ok
            THEN Fail([recorded EXCEPT !.games[g].total_volume = volume.v], "Panic")
       ELSE Done([recorded EXCEPT !.games[g].total_volume = volume.v,
                                  !.games[g].total_fees = fees.v])

ResolveCoinflipNoGuard(s, vrf_authority, g, player) ==
    IF g \notin DOMAIN s.games THEN "AccountNotInitialized"
    ELSE IF <<g, player>> \notin DOMAIN s.bets THEN "AccountNotInitialized"
    ELSE "Ok"

\* constraint = player_bet.outcome == BetOutcome::Pending @ AlreadyResolved;
\* vrf_authority is a Signer with no further constraint
ResolveCoinflip(s, vrf_authority, g, player) ==
    IF g \notin DOMAIN s.games THEN "AccountNotInitialized"
    ELSE IF <<g, player>> \notin DOMAIN s.bets THEN "AccountNotInitialized"
    ELSE IF s.bets[<<g, player>>].outcome # "Pending" THEN "AlreadyResolved"
    ELSE "Ok"

\* state.rs: calculate_coinflip_result
calculate_coinflip_result(vrf_result) ==
    IF vrf_result[0] % 2 = 0 THEN "Heads" ELSE "Tails"

coinflip_resolve_handler(s, chk, g, player, vrf_result) ==
    LET bet == s.bets[<<g, player>>]
        game == s.games[g]
        result == calculate_coinflip_result(vrf_result)
        choice == IF bet.bet_choice = 0 THEN "Heads" ELSE "Tails"
        won == (result = choice)
        payout == IF won THEN WinPayout(chk, bet.bet_amount, game.config.house_edge_bps)
                  ELSE Val(0)
        updated == [s EXCEPT !.bets[<<g, player>>] =
                        [bet EXCEPT !.outcome = IF won THEN "Win" ELSE "Lose",
                                    !.payout_amount = payout.v,
                                    !.vrf_result = vrf_result,
                                    !.resolved_at = now]]
    IN IF ~payout.ok THEN Fail(s, "Panic")
       ELSE IF payout.v > 0 THEN Transfer(updated, g, player, payout.v)
       ELSE Done(updated)

(***************************************************************************)
(* crash.rs                                                                *)
(***************************************************************************)
\* RoundState.result, 32 bytes: all zero, a little-endian u32 in the first
\* four bytes, or an account key
ZeroResult == [kind |-> "zero", v |-> 0, key |-> "none"]

\* `*` of a u32
MulU32(chk, a, b) ==
    IF MulOverflows(a, b, U32Mod)
    THEN IF chk THEN Panic ELSE Val(MulMod(a, b, U32Mod))
    ELSE Val(a * b)

\* seeds = [b"round", game_state, (current_round + 1)]: the round account is
\* created (init) before has_one and the game_type constraint are checked
StartCrashRound(s, chk, authority, g) ==
    IF g \notin DOMAIN s.games THEN "AccountNotInitialized"
    ELSE LET next == AddU32(chk, s.games[g].current_round, 1)
         IN IF ~next.ok THEN "Panic"
            ELSE IF <<g, next.v>> \in DOMAIN s.rounds THEN "AccountInUse"
            ELSE IF s.games[g].authority # authority THEN "Unauthorized"
            ELSE IF s.games[g].game_type # "Crash" THEN "GameNotActive"
            ELSE "Ok"

start_round_active(s, chk, g) ==
    LET next == AddU32(chk, s.games[g].current_round, 1)
        round == [game |-> g, round_number |-> next.v, phase |-> "Active",
                  pool_size |-> 0, participant_count |-> 0,
                  vrf_result |-> ZeroSeed, result |-> ZeroResult,
                  started_at |-> now, betting_ends_at |-> now + 10,
                  ended_at |-> 0]
    IN IF ~next.ok THEN Fail(s, "Panic")
       ELSE Done([s EXCEPT !.games[g].current_round = next.v,
                           !.rounds = <<g, next.v>> :> round @@ @])

start_round_handler(s, chk, g) ==
    LET next == AddU32(chk, s.games[g].current_round, 1)
        round == [game |-> g, round_number |-> next.v, phase |-> "Betting",
                  pool_size |-> 0, participant_count |-> 0,
                  vrf_result |-> ZeroSeed, result |-> ZeroResult,
                  started_at |-> now, betting_ends_at |-> now + 10,
                  ended_at |-> 0]
    IN IF ~next.ok THEN Fail(s, "Panic")
       ELSE Done([s EXCEPT !.games[g].current_round = next.v,
                           !.rounds = <<g, next.v>> :> round @@ @])

JoinCrashAnyPhase(s, player, g) ==
    IF g \notin DOMAIN s.games THEN "AccountNotInitialized"
    ELSE LET rk == <<g, s.games[g].current_round>>
         IN IF rk \notin DOMAIN s.rounds THEN "AccountNotInitialized"
            ELSE IF <<rk[1], rk[2], player>> \in DOMAIN s.participants THEN "AccountInUse"
            ELSE IF ~s.games[g].is_active THEN "GameNotActive"
            ELSE "Ok"

\* the participant account is created (init) before the constraints of
\* game_state and round_state are checked
JoinCrash(s, player, g) ==
    IF g \notin DOMAIN s.games THEN "AccountNotInitialized"
    ELSE LET rk == <<g, s.games[g].current_round>>
         IN IF rk \notin DOMAIN s.rounds THEN "AccountNotInitialized"
            ELSE IF <<rk[1], rk[2], player>> \in DOMAIN s.participants THEN "AccountInUse"
            ELSE IF ~s.games[g].is_active THEN "GameNotActive"
            ELSE IF s.rounds[rk].phase # "Betting" THEN "RoundNotBetting"
            ELSE "Ok"

join_handler(s, chk, player, g, bet_amount) ==
    LET game == s.games[g]
        rk == <<g, game.current_round>>
        round == s.rounds[rk]
        paid == Transfer(s, player, g, bet_amount)
        participant == [player |-> player, round |-> rk, bet_amount |-> bet_amount,
                        cashed_out |-> FALSE, cashout_multiplier |-> 0,
                        payout |-> 0, joined_at |-> now, cashed_out_at |-> 0]
        joined == [paid.st EXCEPT !.participants = <<g, rk[2], player>> :> participant @@ @]
        pool == CheckedAddUnwrap(round.pool_size, bet_amount)
        count == AddU32(chk, round.participant_count, 1)
    IN IF bet_amount < game.config.min_bet THEN Fail(s, "BetTooSmall")
       ELSE IF bet_amount > game.config.max_bet THEN Fail(s, "BetTooLarge")
       ELSE IF paid.err # "Ok" THEN paid
       ELSE IF ~pool.ok \/ ~count.ok THEN Fail(joined, "Panic")
       ELSE Done([joined EXCEPT !.rounds[rk].pool_size = pool.v,
                                !.rounds[rk].participant_count = count.v])

CashoutCrashAnyPhase(s, player, g) ==
    IF g \notin DOMAIN s.games THEN "AccountNotInitialized"
    ELSE LET rk == <<g, s.games[g].current_round>>
             pk == <<g, rk[2], player>>
         IN IF rk \notin DOMAIN s.rounds THEN "AccountNotInitialized"
            ELSE IF pk \notin DOMAIN s.participants THEN "AccountNotInitialized"
            ELSE IF s.participants[pk].cashed_out THEN "AlreadyCashedOut"
            ELSE "Ok"

\* constraint = round_state.phase == RoundPhase::Active @ RoundNotBetting,
\* then constraint = !participant.cashed_out @ AlreadyCashedOut
CashoutCrash(s, player, g) ==
    IF g \notin DOMAIN s.games THEN "AccountNotInitialized"
    ELSE LET rk == <<g, s.games[g].current_round>>
             pk == <<g, rk[2], player>>
         IN IF rk \notin DOMAIN s.rounds THEN "AccountNotInitialized"
            ELSE IF pk \notin DOMAIN s.participants THEN "AccountNotInitialized"
            ELSE IF s.rounds[rk].phase # "Active" THEN "RoundNotBetting"
            ELSE IF s.participants[pk].cashed_out THEN "AlreadyCashedOut"
            ELSE "Ok"

cashout_handler(s, chk, player, g) ==
    LET game == s.games[g]
        rk == <<g, game.current_round>>
        pk == <<g, rk[2], player>>
        participant == s.participants[pk]
        elapsed == now - s.rounds[rk].started_at
        scaled == MulU32(chk, elapsed % U32Mod, 100)
        multiplier == IF scaled.ok THEN AddU32(chk, 10000, scaled.v) ELSE Panic
        product == IF multiplier.ok THEN MulU64(chk, participant.bet_amount, multiplier.v)
                   ELSE Panic
        payout == product.v \div 10000
        updated == [s EXCEPT !.participants[pk] =
                       [participant EXCEPT !.cashed_out = TRUE,
                                           !.cashout_multiplier = multiplier.v,
                                           !.payout = payout,
                                           !.cashed_out_at = now]]
    IN IF ~product.ok THEN Fail(s, "Panic")
       ELSE Transfer(updated, g, player, payout)

ResolveCrashNoGuard(s, vrf_authority, g, n) ==
    IF g \notin DOMAIN s.games THEN "AccountNotInitialized"
    ELSE IF <<g, n>> \notin DOMAIN s.rounds THEN "AccountNotInitialized"
    ELSE "Ok"

\* constraint = round_state.phase != RoundPhase::Ended @ RoundEnded
ResolveCrash(s, vrf_authority, g, n) ==
    IF g \notin DOMAIN s.games THEN "AccountNotInitialized"
    ELSE IF <<g, n>> \notin DOMAIN s.rounds THEN "AccountNotInitialized"
    ELSE IF s.rounds[<<g, n>>].phase = "Ended" THEN "RoundEnded"
    ELSE "Ok"

crash_resolve_handler(s, g, n, vrf_result) ==
    LET crash_point == calculate_crash_point(vrf_result)
    IN Done([s EXCEPT !.rounds[<<g, n>>] =
                 [@ EXCEPT !.vrf_result = vrf_result,
                           !.result = [@ EXCEPT !.kind = "u32", !.v = crash_point],
                           !.phase = "Ended",
                           !.ended_at = now]])

(***************************************************************************)
(* jackpot.rs                                                              *)
(***************************************************************************)
\* a participant account as init_if_needed creates it
ZeroParticipant ==
    [player |-> "none", round |-> <<"none", 0>>, bet_amount |-> 0,
     cashed_out |-> FALSE, cashout_multiplier |-> 0, payout |-> 0,
     joined_at |-> 0, cashed_out_at |-> 0]

EnterJackpot(s, player, g) ==
    IF g \notin DOMAIN s.games THEN "AccountNotInitialized"
    ELSE LET rk == <<g, s.games[g].current_round>>
         IN IF rk \notin DOMAIN s.rounds THEN "AccountNotInitialized"
            ELSE IF ~s.games[g].is_active THEN "GameNotActive"
            ELSE IF s.games[g].game_type # "Jackpot" THEN "GameNotActive"
            ELSE IF s.rounds[rk].phase # "Betting" THEN "RoundNotBetting"
            ELSE "Ok"

enter_handler(s, chk, player, g, ticket_amount) ==
    LET game == s.games[g]
        rk == <<g, game.current_round>>
        pk == <<g, rk[2], player>>
        round == s.rounds[rk]
        participant == IF pk \in DOMAIN s.participants THEN s.participants[pk]
                       ELSE ZeroParticipant
        bet_amount == CheckedMulUnwrap(ticket_amount, game.config.min_bet)
        paid == Transfer(s, player, g, bet_amount.v)
        fresh == participant.joined_at = 0
        count == IF fresh THEN AddU32(chk, round.participant_count, 1)
                 ELSE Val(round.participant_count)
        total == IF fresh THEN Val(bet_amount.v)
                 ELSE CheckedAddUnwrap(participant.bet_amount, bet_amount.v)
        entered == IF fresh
                   THEN [participant EXCEPT !.player = player, !.round = rk,
                                            !.bet_amount = bet_amount.v,
                                            !.joined_at = now]
                   ELSE [participant EXCEPT !.bet_amount = total.v]
        pool == CheckedAddUnwrap(round.pool_size, bet_amount.v)
    IN IF ~bet_amount.ok THEN Fail(s, "Panic")
       ELSE IF bet_amount.v > game.config.max_bet THEN Fail(s, "BetTooLarge")
       ELSE IF paid.err # "Ok" THEN paid
       ELSE IF ~count.ok \/ ~total.ok \/ ~pool.ok THEN Fail(paid.st, "Panic")
       ELSE Done([paid.st EXCEPT
                     !.participants = pk :> entered @@ @,
                     !.rounds[rk].participant_count = count.v,
                     !.rounds[rk].pool_size = pool.v])

\* constraint = round_state.phase == RoundPhase::Betting @ RoundEnded; the
\* game type is not constrained and `winner` is any account
DrawJackpot(s, vrf_authority, g, n) ==
    IF g \notin DOMAIN s.games THEN "AccountNotInitialized"
    ELSE IF <<g, n>> \notin DOMAIN s.rounds THEN "AccountNotInitialized"
    ELSE IF s.rounds[<<g, n>>].phase # "Betting" THEN "RoundEnded"
    ELSE "Ok"

draw_handler(s, chk, g, n, winner, vrf_result) ==
    LET game == s.games[g]
        round == s.rounds[<<g, n>>]
        min_bet == game.config.min_bet
        total_tickets == IF min_bet = 0 THEN Panic
                         ELSE Val(round.pool_size \div min_bet)
        winner_index == IF total_tickets.ok
                        THEN calculate_jackpot_winner(vrf_result,
                                                      total_tickets.v % U32Mod)
                        ELSE Panic
        product == MulU64(chk, round.pool_size, game.config.house_edge_bps)
        house_cut == product.v \div 10000
        payout == IF product.ok THEN SubU64(chk, round.pool_size, house_cut)
                  ELSE Panic
        paid == Transfer(s, g, winner, payout.v)
    IN IF ~winner_index.ok \/ ~payout.ok THEN Fail(s, "Panic")
       ELSE IF paid.err # "Ok" THEN paid
       ELSE Done([paid.st EXCEPT !.rounds[<<g, n>>] =
                     [@ EXCEPT !.vrf_result = vrf_result,
                               !.phase = "Ended",
                               !.ended_at = now,
                               !.result = [kind |-> "pubkey", v |-> 0,
                                           key |-> winner]]])

(***************************************************************************)
(* gacha.rs                                                                *)
(***************************************************************************)
\* seeds = [b"gacha", game_state, player, Clock unix_timestamp]
PullGacha(s, player, g) ==
    IF g \notin DOMAIN s.games THEN "AccountNotInitialized"
    ELSE IF <<g, player, now>> \in DOMAIN s.pulls THEN "AccountInUse"
    ELSE IF ~s.games[g].is_active THEN "GameNotActive"
    ELSE IF s.games[g].game_type # "Gacha" THEN "GameNotActive"
    ELSE "Ok"

pull_handler(s, player, g, pulls_n) ==
    LET game == s.games[g]
        cost_per_pull == game.config.min_bet
        total_cost == CheckedMulUnwrap(cost_per_pull, pulls_n)
        paid == Transfer(s, player, g, total_cost.v)
        pull_result == [player |-> player, game |-> g, pull_count |-> pulls_n,
                        tiers |-> [i \in 0..9 |-> 0], total_payout |-> 0,
                        vrf_result |-> ZeroSeed, resolved |-> FALSE,
                        pulled_at |-> now]
        volume == CheckedAddUnwrap(game.total_volume, total_cost.v)
    IN IF ~(pulls_n >= 1 /\ pulls_n <= 10) THEN Fail(s, "InvalidPullCount")
       ELSE IF ~total_cost.ok THEN Fail(s, "Panic")
       ELSE IF total_cost.v > game.config.max_bet THEN Fail(s, "BetTooLarge")
       ELSE IF paid.err # "Ok" THEN paid
       ELSE IF ~volume.ok THEN Fail(paid.st, "Panic")
       ELSE Done([paid.st EXCEPT !.pulls = <<g, player, now>> :> pull_result @@ @,
                                 !.games[g].total_volume = volume.v])

ResolveGachaNoGuard(s, vrf_authority, g, pk) ==
    IF g \notin DOMAIN s.games THEN "AccountNotInitialized"
    ELSE IF pk \notin DOMAIN s.pulls THEN "AccountNotInitialized"
    ELSE "Ok"

\* constraint = !pull_result.resolved @ AlreadyResolved; pull_result, player
\* and game_state are not tied to each other
ResolveGacha(s, vrf_authority, g, pk) ==
    IF g \notin DOMAIN s.games THEN "AccountNotInitialized"
    ELSE IF pk \notin DOMAIN s.pulls THEN "AccountNotInitialized"
    ELSE IF s.pulls[pk].resolved THEN "AlreadyResolved"
    ELSE "Ok"

\* `if i == 9 && !has_rare_or_better`: the 10-pull guarantee
PityOffByOne(i, has_rare_or_better) == i = 10 /\ ~has_rare_or_better

Pity(i, has_rare_or_better) == i = 9 /\ ~has_rare_or_better

\* the body of `for i in 0..pull_count`: acc = [ok, tiers, total_payout,
\* has_rare_or_better]
RECURSIVE PullLoop(_, _, _, _, _, _)
PullLoop(chk, cost_per_pull, vrf_result, pull_count, i, acc) ==
    IF i >= pull_count \/ ~acc.ok THEN acc
    ELSE LET random_byte == vrf_result[i % 32]
             tier == from_random(random_byte)
             forced == Pity(i, acc.has_rare_or_better)
             stored == IF forced THEN Rare ELSE tier
             product == MulU64(chk, cost_per_pull, multiplier_bps(stored))
             sum == IF product.ok
                    THEN CheckedAddUnwrap(acc.total_payout, product.v \div 10000)
                    ELSE Panic
         IN PullLoop(chk, cost_per_pull, vrf_result, pull_count, i + 1,
                     [ok |-> sum.ok,
                      tiers |-> [acc.tiers EXCEPT ![i] = stored],
                      total_payout |-> sum.v,
                      has_rare_or_better |->
                          acc.has_rare_or_better \/ (~forced /\ tier # Common)])

gacha_resolve_handler(s, chk, g, pk, player, vrf_result) ==
    LET game == s.games[g]
        pull_result == s.pulls[pk]
        cost_per_pull == game.config.min_bet
        loop == PullLoop(chk, cost_per_pull, vrf_result, pull_result.pull_count, 0,
                         [ok |-> TRUE, tiers |-> pull_result.tiers,
                          total_payout |-> 0, has_rare_or_better |-> FALSE])
        updated == [s EXCEPT !.pulls[pk] =
                       [pull_result EXCEPT !.tiers = loop.tiers,
                                           !.vrf_result = vrf_result,
                                           !.total_payout = loop.total_payout,
                                           !.resolved = TRUE]]
    IN IF ~loop.ok THEN Fail(s, "Panic")
       ELSE IF loop.total_payout > 0 THEN Transfer(updated, g, player, loop.total_payout)
       ELSE Done(updated)

(***************************************************************************)
(* The instructions of lib.rs as actions.  Run(op, signer, target, check,  *)
(* out): `check` is the outcome of the account validation; the handler     *)
(* outcome `out` counts only when it is Ok.  lastResult records the        *)
(* instruction, its signer, the account it addressed and its result.       *)
(***************************************************************************)
Run(op, signer, target, check, out) ==
    LET res == IF check # "Ok" THEN Fail(Accounts, check) ELSE out
        s == Commit(Accounts, res)
    IN /\ games' = s.games
       /\ bets' = s.bets
       /\ rounds' = s.rounds
       /\ participants' = s.participants
       /\ pulls' = s.pulls
       /\ tokens' = s.tokens
       /\ lamports' = s.lamports
       /\ lastResult' = [op |-> op, signer |-> signer, target |-> target,
                        err |-> res.err]
       /\ UNCHANGED <<now, overflow_checks>>

\* Inputs of the instructions
Admins == {"auth"}
Callers == {"auth", "alice"}
Oracles == {"vrf", "alice"}
FundAmounts == {20}
BetAmounts == {0, 2, BigBet}
TicketAmounts == {0, 1}
PullCounts == {0, 1, 10, 11}
MaxRounds == 2

AllFF == [i \in 0..31 |-> 255]
CoinSeeds == {ZeroSeed, Seed(1, 0, 0)}
CrashSeeds == {ZeroSeed, Seed(1, 0, 0), AllFF}
GachaSeeds == {Seed(a, m, z) : a \in {189, 190, 253}, m \in {0, 241}, z \in ByteVals}

initialize_game(types, configs) ==
    \E authority \in Admins, game_type \in types, g \in Slugs, config \in configs :
        Run("initialize_game", authority, <<g>>, InitializeGame(Accounts, g),
            initialize_handler(Accounts, authority, game_type, g, config))

fund_pool ==
    \E authority \in Callers, g \in Slugs, amount \in FundAmounts :
        Run("fund_pool", authority, <<g>>, FundPool(Accounts, authority, g),
            fund_handler(Accounts, authority, g, amount))

withdraw_fees ==
    \E authority \in Callers, g \in Slugs, amount \in FundAmounts :
        Run("withdraw_fees", authority, <<g>>, WithdrawFees(Accounts, authority, g),
            withdraw_handler(Accounts, authority, g, amount))

play_coinflip(players, amounts) ==
    \E player \in players, g \in Slugs, bet_amount \in amounts, choice \in CoinChoice :
        Run("play_coinflip", player, <<g, player>>, PlayCoinflip(Accounts, player, g),
            play_handler(Accounts, overflow_checks, player, g, bet_amount, choice))

resolve_coinflip(signers, players, seeds) ==
    \E vrf_authority \in signers, g \in Slugs, player \in players, vrf_result \in seeds :
        Run("resolve_coinflip", vrf_authority, <<g, player>>,
            ResolveCoinflip(Accounts, vrf_authority, g, player),
            coinflip_resolve_handler(Accounts, overflow_checks, g, player, vrf_result))

\* the round counter is capped at MaxRounds to keep the model finite; a
\* counter within MaxRounds of the u32 limit is left to run into the limit
start_crash_round ==
    \E authority \in Callers, g \in Slugs :
        /\ g \in DOMAIN games =>
              \/ games[g].current_round < MaxRounds
              \/ games[g].current_round >= U32Mod - MaxRounds
        /\ Run("start_crash_round", authority, <<g>>,
               StartCrashRound(Accounts, overflow_checks, authority, g),
               start_round_handler(Accounts, overflow_checks, g))

join_crash(players, amounts) ==
    \E player \in players, g \in Slugs, bet_amount \in amounts :
        Run("join_crash", player, <<g, player>>, JoinCrash(Accounts, player, g),
            join_handler(Accounts, overflow_checks, player, g, bet_amount))

cashout_crash(players) ==
    \E player \in players, g \in Slugs :
        Run("cashout_crash", player, <<g, player>>, CashoutCrash(Accounts, player, g),
            cashout_handler(Accounts, overflow_checks, player, g))

resolve_crash(signers, seeds) ==
    \E vrf_authority \in signers, g \in Slugs, n \in 1..MaxRounds, vrf_result \in seeds :
        Run("resolve_crash", vrf_authority, <<g, n>>, ResolveCrash(Accounts, vrf_authority, g, n),
            crash_resolve_handler(Accounts, g, n, vrf_result))

enter_jackpot(players) ==
    \E player \in players, g \in Slugs, ticket_amount \in TicketAmounts :
        Run("enter_jackpot", player, <<g, player>>, EnterJackpot(Accounts, player, g),
            enter_handler(Accounts, overflow_checks, player, g, ticket_amount))

draw_jackpot(signers, winners, seeds) ==
    \E vrf_authority \in signers, g \in Slugs, n \in 1..MaxRounds,
       winner \in winners, vrf_result \in seeds :
        Run("draw_jackpot", vrf_authority, <<g, n>>, DrawJackpot(Accounts, vrf_authority, g, n),
            draw_handler(Accounts, overflow_checks, g, n, winner, vrf_result))

pull_gacha(players) ==
    \E player \in players, g \in Slugs, pulls_n \in PullCounts :
        Run("pull_gacha", player, <<g, player>>, PullGacha(Accounts, player, g),
            pull_handler(Accounts, player, g, pulls_n))

resolve_gacha(signers, recipients, seeds) ==
    \E vrf_authority \in signers, g \in Slugs, pk \in DOMAIN pulls,
       player \in recipients, vrf_result \in seeds :
        Run("resolve_gacha", vrf_authority, pk, ResolveGacha(Accounts, vrf_authority, g, pk),
            gacha_resolve_handler(Accounts, overflow_checks, g, pk, player, vrf_result))

\* Clock: unix_timestamp advances between transactions
Tick ==
    /\ now < MaxTime
    /\ now' = now + 1
    /\ UNCHANGED <<games, bets, rounds, participants, pulls, tokens, lamports,
                   overflow_checks, lastResult>>

Init ==
    /\ games = <<>>
    /\ bets = <<>>
    /\ rounds = <<>>
    /\ participants = <<>>
    /\ pulls = <<>>
    /\ tokens = [w \in Wallets \cup Slugs |->
                   IF w = "auth" THEN 20
                   ELSE IF w = "alice" THEN BigBet
                   ELSE IF w = "bob" THEN 2 ELSE 0]
    /\ lamports = [w \in Wallets \cup Slugs |-> IF w = "alice" THEN 1 ELSE 0]
    /\ now = 1
    /\ overflow_checks \in BOOLEAN
    /\ lastResult = [op |-> "none", signer |-> "none", target |-> <<>>, err |-> "Ok"]

DefaultLike == GameConfig(2, BigBet, 200, 1)
ZeroMin == GameConfig(0, 20, 10000, 0)

\* the smallest price per pull whose product with the Legendary multiplier
\* leaves the u64 range
WrapStake == (U64Mod \div 100000) + 1
HighStake == GameConfig(WrapStake, BigBet, 200, 0)

\* The coin-flip game on one pool
NextCoinflip ==
    \/ initialize_game({"CoinFlip"}, Configs)
    \/ fund_pool
    \/ withdraw_fees
    \/ play_coinflip(Players, BetAmounts)
    \/ resolve_coinflip(Oracles, Players, CoinSeeds)

SpecCoinflip == Init /\ [][NextCoinflip]_vars

\* The round instructions on one pool
NextCrash ==
    \/ initialize_game({"Crash"}, {DefaultLike, ZeroMin})
    \/ fund_pool
    \/ withdraw_fees
    \/ start_crash_round
    \/ join_crash({"alice"}, {2})
    \/ cashout_crash({"alice"})
    \/ resolve_crash({"vrf"}, CrashSeeds)
    \/ enter_jackpot({"alice"})
    \/ draw_jackpot({"vrf"}, {"alice", "vrf"}, {ZeroSeed})

SpecCrash == Init /\ [][NextCrash]_vars

\* The gacha game on one pool
NextGacha ==
    \/ initialize_game({"Gacha"}, {DefaultLike, ZeroMin, HighStake})
    \/ fund_pool
    \/ pull_gacha({"alice"})
    \/ resolve_gacha({"vrf"}, Players, GachaSeeds)

SpecGacha == Init /\ [][NextGacha]_vars

\* Every instruction of the program, on a pool of any game type
Next ==
    \/ initialize_game(GameType, {DefaultLike, ZeroMin})
    \/ fund_pool
    \/ withdraw_fees
    \/ play_coinflip(Players, {0, 2})
    \/ resolve_coinflip(Oracles, Players, CoinSeeds)
    \/ start_crash_round
    \/ join_crash({"alice"}, {2})
    \/ cashout_crash({"alice"})
    \/ resolve_crash({"vrf"}, {ZeroSeed, AllFF})
    \/ enter_jackpot({"alice"})
    \/ draw_jackpot({"vrf"}, {"alice"}, {ZeroSeed})
    \/ pull_gacha({"alice"})
    \/ resolve_gacha(Oracles, {"alice"}, {Seed(189, 0, 0), Seed(190, 0, 255)})

Spec == Init /\ [][Next]_vars

(***************************************************************************)
(* Properties                                                              *)
(***************************************************************************)
Records == <<games, bets, rounds, participants, pulls>>
Balances == <<tokens, lamports>>

\* the exact (unbounded) maximum payout of a coin-flip stake
MaxPayout(bet_amount, house_edge_bps) ==
    (bet_amount * (20000 - 2 * house_edge_bps)) \div 10000

\* C1: a coin-flip wager is resolved at most once.  A wager that is not
\* Pending keeps its outcome, payout_amount and stored seed in every step,
\* and resolve_coinflip addressed to such a wager fails with AlreadyResolved.
C1_ResolvedOnce ==
    [][ /\ \A k \in DOMAIN bets :
              bets[k].outcome # "Pending" =>
                  /\ k \in DOMAIN bets'
                  /\ bets'[k].outcome = bets[k].outcome
                  /\ bets'[k].payout_amount = bets[k].payout_amount
                  /\ bets'[k].vrf_result = bets[k].vrf_result
        /\ ( /\ lastResult'.op = "resolve_coinflip"
             /\ lastResult'.target \in DOMAIN bets
             /\ bets[lastResult'.target].outcome # "Pending" )
           => lastResult'.err = "AlreadyResolved" ]_vars

\* a second resolution of a resolved wager has been attempted and rejected
C1_Witness ==
    /\ lastResult.op = "resolve_coinflip"
    /\ lastResult.err = "AlreadyResolved"
    /\ lastResult.target \in DOMAIN bets
    /\ bets[lastResult.target].outcome \in {"Win", "Lose"}

\* C2: for every wager, payout_amount > 0 if and only if outcome = Won.
C2_PayoutIffWon ==
    \A k \in DOMAIN bets : (bets[k].payout_amount > 0) <=> (bets[k].outcome = "Win")

\* C3: the escrow of a pool covers the maximum possible payout of every
\* wager that is still Pending on the pool.
C3_EscrowCoversPending ==
    \A k \in DOMAIN bets :
        bets[k].outcome = "Pending" =>
            tokens[k[1]] >= MaxPayout(bets[k].bet_amount,
                                      games[k[1]].config.house_edge_bps)

C5_PhaseForward ==
    [][ \A k \in DOMAIN rounds :
            /\ k \in DOMAIN rounds'
            /\ LET p == rounds[k].phase
                   q == rounds'[k].phase
                   type == games[k[1]].game_type
               IN \/ p = q
                  \/ type = "Crash" /\ p = "Betting" /\ q = "Active"
                  \/ type = "Crash" /\ p = "Active" /\ q = "Ended"
                  \/ type = "Jackpot" /\ p = "Betting" /\ q = "Ended" ]_vars

\* C6: a resolution instruction succeeds only when signed by the
\* random-value authority (the wallet "vrf").
C6_OnlyVrfResolves ==
    ( /\ lastResult.op \in {"resolve_coinflip", "resolve_crash", "draw_jackpot",
                            "resolve_gacha"}
      /\ lastResult.err = "Ok" )
    => lastResult.signer = "vrf"

C8_Admission ==
    [][ lastResult'.op = "play_coinflip" =>
          LET k == lastResult'.target
              g == k[1]
          IN IF lastResult'.err = "Ok"
             THEN /\ k \notin DOMAIN bets /\ k \in DOMAIN bets'
                  /\ games[g].is_active /\ games[g].game_type = "CoinFlip"
                  /\ bets'[k].bet_amount >= games[g].config.min_bet
                  /\ bets'[k].bet_amount <= games[g].config.max_bet
                  /\ tokens[g] >= MaxPayout(bets'[k].bet_amount,
                                            games[g].config.house_edge_bps)
                  /\ bets'[k].outcome = "Pending"
                  /\ bets'[k].payout_amount = 0
                  /\ bets'[k].vrf_result = ZeroSeed
             ELSE UNCHANGED <<games, bets, tokens, lamports>> ]_vars

\* C9: the crash point stored by resolve_crash lies within
\* [10000, 1000000] basis points for every seed.
C9_CrashPointRange ==
    \A k \in DOMAIN rounds :
        rounds[k].result.kind = "u32" =>
            rounds[k].result.v >= 10000 /\ rounds[k].result.v <= 1000000

\* C10: after resolve_gacha on a batch of 10 pulls the stored tiers hold at
\* least one Rare, Epic or Legendary.
C10_PityGuarantee ==
    \A pk \in DOMAIN pulls :
        (pulls[pk].resolved /\ pulls[pk].pull_count = 10) =>
            \E i \in 0..9 : pulls[pk].tiers[i] \in {Rare, Epic, Legendary}

\* a resolved 10-pull batch whose ten raw bytes all map to Common
C10_Witness ==
    \E pk \in DOMAIN pulls :
        /\ pulls[pk].resolved
        /\ pulls[pk].pull_count = 10
        /\ \A i \in 0..9 : from_random(pulls[pk].vrf_result[i]) = Common
        /\ pulls[pk].tiers[9] = Rare

(***************************************************************************)
(* A crash round late in its betting phase.  join_handler reads only the   *)
(* round's two counters and the joining player's own participant account,  *)
(* so the earlier joins of other wallets are kept as the counters they     *)
(* left behind: `count` joins by distinct wallets that staked `pool` in    *)
(* all (at least min_bet each), the stakes since withdrawn by the          *)
(* authority.                                                              *)
(***************************************************************************)
PriorJoins ==
    { [count |-> 0, pool |-> 0],
      [count |-> U32Mod - 1, pool |-> 2 * (U32Mod - 1)],
      [count |-> U32Mod - 2, pool |-> U64Mod - 2] }

InitCounters ==
    /\ \E prior \in PriorJoins :
          /\ games = "g1" :> [authority |-> "auth", game_type |-> "Crash",
                              config |-> DefaultLike, is_active |-> TRUE,
                              total_volume |-> 0, total_fees |-> 0,
                              current_round |-> 1, created_at |-> 1]
          /\ rounds = <<"g1", 1>> :>
                         [game |-> "g1", round_number |-> 1, phase |-> "Betting",
                          pool_size |-> prior.pool,
                          participant_count |-> prior.count,
                          vrf_result |-> ZeroSeed, result |-> ZeroResult,
                          started_at |-> 1, betting_ends_at |-> 11,
                          ended_at |-> 0]
    /\ bets = <<>>
    /\ participants = <<>>
    /\ pulls = <<>>
    /\ tokens = [w \in Wallets \cup Slugs |->
                   IF w = "auth" THEN 20
                   ELSE IF w = "alice" THEN BigBet
                   ELSE IF w = "bob" THEN 2 ELSE 0]
    /\ lamports = [w \in Wallets \cup Slugs |-> IF w = "alice" THEN 1 ELSE 0]
    /\ now = 1
    /\ overflow_checks \in BOOLEAN
    /\ lastResult = [op |-> "none", signer |-> "none", target |-> <<>>, err |-> "Ok"]

NextCounters ==
    \/ fund_pool
    \/ join_crash(Players, {0, 2})
    \/ enter_jackpot(Players)
    \/ cashout_crash(Players)
    \/ resolve_crash({"vrf"}, {Seed(1, 0, 0)})

SpecCounters == InitCounters /\ [][NextCounters]_vars

\* C11: every successful join_crash / enter_jackpot adds exactly the admitted
\* amount to the round's pool_size and exactly one to participant_count for
\* a new participant (none for a returning one): the counters are the exact
\* sums and never wrap.
C11_ExactCounters ==
    [][ ( /\ lastResult'.op \in {"join_crash", "enter_jackpot"}
          /\ lastResult'.err = "Ok" )
        => LET g == lastResult'.target[1]
               rk == <<g, games[g].current_round>>
               amount == tokens'[g] - tokens[g]
               fresh == <<g, rk[2], lastResult'.target[2]>> \notin DOMAIN participants
           IN /\ rounds'[rk].pool_size = rounds[rk].pool_size + amount
              /\ rounds'[rk].participant_count =
                     rounds[rk].participant_count + (IF fresh THEN 1 ELSE 0) ]_vars

\* C12: the stored seed of a wager is all-zero exactly while the wager is
\* Pending; a Won or Lost wager never stores the all-zero seed.
C12_SeedMarksResolved ==
    \A k \in DOMAIN bets :
        (bets[k].outcome = "Pending") <=> (bets[k].vrf_result = ZeroSeed)

\* the round join_crash / enter_jackpot / cashout_crash address for a pool
CurrentRound(g) == <<g, games[g].current_round>>

\* C13 (as stated): join_crash and enter_jackpot on a round that is not in
\* phase Betting fail with RoundNotBetting.
C13_AlwaysRoundNotBetting ==
    [][ ( /\ lastResult'.op \in {"join_crash", "enter_jackpot"}
          /\ lastResult'.target[1] \in DOMAIN games
          /\ CurrentRound(lastResult'.target[1]) \in DOMAIN rounds
          /\ rounds[CurrentRound(lastResult'.target[1])].phase # "Betting" )
        => lastResult'.err = "RoundNotBetting" ]_vars

\* C13 (amended): join_crash and enter_jackpot on a round that is not in
\* phase Betting always fail, and a round's pool_size and participant_count
\* never change once it has left Betting.  The error is RoundNotBetting
\* exactly when the call passes the account checks made before the phase
\* check: an active pool, for join_crash a player without a participant
\* record on the round, for enter_jackpot a pool of the Jackpot variant.
C13_JoinOnlyInBetting ==
    [][ /\ \A k \in DOMAIN rounds :
              rounds[k].phase # "Betting" =>
                  /\ k \in DOMAIN rounds'
                  /\ rounds'[k].pool_size = rounds[k].pool_size
                  /\ rounds'[k].participant_count = rounds[k].participant_count
        /\ ( /\ lastResult'.op \in {"join_crash", "enter_jackpot"}
             /\ lastResult'.target[1] \in DOMAIN games
             /\ CurrentRound(lastResult'.target[1]) \in DOMAIN rounds
             /\ rounds[CurrentRound(lastResult'.target[1])].phase # "Betting" )
           => LET g == lastResult'.target[1]
                  pk == <<g, games[g].current_round, lastResult'.target[2]>>
                  earlier ==
                      IF lastResult'.op = "join_crash"
                      THEN pk \in DOMAIN participants \/ ~games[g].is_active
                      ELSE ~games[g].is_active \/ games[g].game_type # "Jackpot"
              IN /\ lastResult'.err # "Ok"
                 /\ (lastResult'.err = "RoundNotBetting") <=> ~earlier ]_vars

\* a player without a participant record has been refused on an Ended round
C13_Witness ==
    /\ lastResult.op = "join_crash"
    /\ lastResult.err = "RoundNotBetting"
    /\ rounds[CurrentRound(lastResult.target[1])].phase = "Ended"
    /\ <<lastResult.target[1], games[lastResult.target[1]].current_round,
         lastResult.target[2]>> \notin DOMAIN participants

\* C14: cashout_crash succeeds only on an Active round for a participant who
\* has not cashed out; in any other phase it fails with RoundNotBetting and
\* on an Active round for a cashed-out participant with AlreadyCashedOut.
\* cashed_out only goes false -> true, payout and cashout multiplier are
\* written only by that one successful cash-out, which pays the participant
\* exactly the recorded payout.
C14_CashoutOnce ==
    [][ /\ \A pk \in DOMAIN participants :
              /\ pk \in DOMAIN participants'
              /\ participants[pk].cashed_out => participants'[pk].cashed_out
              /\ ( \/ participants'[pk].payout # participants[pk].payout
                   \/ participants'[pk].cashout_multiplier #
                          participants[pk].cashout_multiplier
                   \/ participants'[pk].cashed_out # participants[pk].cashed_out )
                 => /\ ~participants[pk].cashed_out
                    /\ lastResult'.op = "cashout_crash"
                    /\ lastResult'.err = "Ok"
                    /\ pk = <<pk[1], games[pk[1]].current_round, lastResult'.target[2]>>
        /\ ( /\ lastResult'.op = "cashout_crash"
             /\ lastResult'.target[1] \in DOMAIN games
             /\ CurrentRound(lastResult'.target[1]) \in DOMAIN rounds
             /\ <<lastResult'.target[1], games[lastResult'.target[1]].current_round,
                  lastResult'.target[2]>> \in DOMAIN participants )
           => LET g == lastResult'.target[1]
                  player == lastResult'.target[2]
                  pk == <<g, games[g].current_round, player>>
                  phase == rounds[CurrentRound(g)].phase
              IN /\ lastResult'.err = "Ok" =>
                       /\ phase = "Active"
                       /\ ~participants[pk].cashed_out
                       /\ participants'[pk].cashed_out
                       /\ tokens'[player] = tokens[player] + participants'[pk].payout
                 /\ phase # "Active" => lastResult'.err = "RoundNotBetting"
                 /\ (phase = "Active" /\ participants[pk].cashed_out)
                       => lastResult'.err = "AlreadyCashedOut"
                 /\ lastResult'.err # "Ok" => UNCHANGED <<participants, tokens>> ]_vars

\* a participant has been refused a cash-out on a round that is not Active
C14_Witness ==
    /\ lastResult.op = "cashout_crash"
    /\ lastResult.err = "RoundNotBetting"
    /\ <<lastResult.target[1], games[lastResult.target[1]].current_round,
         lastResult.target[2]>> \in DOMAIN participants
    /\ rounds[CurrentRound(lastResult.target[1])].phase # "Active"

\* C15: a round is settled at most once.  An Ended round's record (seed,
\* result, pool_size, ended_at and all else) never changes, and
\* resolve_crash or draw_jackpot addressed to it fails with RoundEnded and
\* pays nothing.
C15_SettledOnce ==
    [][ /\ \A k \in DOMAIN rounds :
              rounds[k].phase = "Ended" =>
                  k \in DOMAIN rounds' /\ rounds'[k] = rounds[k]
        /\ ( /\ lastResult'.op \in {"resolve_crash", "draw_jackpot"}
             /\ lastResult'.target \in DOMAIN rounds
             /\ rounds[lastResult'.target].phase = "Ended" )
           => /\ lastResult'.err = "RoundEnded"
              /\ UNCHANGED tokens ]_vars

\* a second draw on a round that a first draw had paid out was refused
C15_Witness ==
    /\ lastResult.op = "draw_jackpot"
    /\ lastResult.err = "RoundEnded"
    /\ lastResult.target \in DOMAIN rounds
    /\ rounds[lastResult.target].result.kind = "pubkey"
    /\ rounds[lastResult.target].pool_size > 0

\* C16: the account paid by draw_jackpot is a participant of the round, with
\* a Participant record of bet_amount > 0 for it.
C16_WinnerIsParticipant ==
    \A k \in DOMAIN rounds :
        rounds[k].result.kind = "pubkey" =>
            LET pk == <<k[1], k[2], rounds[k].result.key>>
            IN pk \in DOMAIN participants /\ participants[pk].bet_amount > 0

\* C17: resolve_coinflip stores Won exactly when seed[0] mod 2 equals the
\* recorded choice and Lost otherwise; a Won wager's payout is the exact
\* bet_amount * (20000 - 2*house_edge_bps) / 10000, truncated, and exactly
\* that amount moves from the escrow to the player; a Lost wager moves
\* nothing.
C17_OutcomeAndPayout ==
    [][ (lastResult'.op = "resolve_coinflip" /\ lastResult'.err = "Ok")
        => LET k == lastResult'.target
               g == k[1]
               player == k[2]
               side == bets'[k].vrf_result[0] % 2
               won == (side = bets[k].bet_choice)
               exact == MaxPayout(bets[k].bet_amount,
                                  games[g].config.house_edge_bps)
           IN /\ bets'[k].outcome = IF won THEN "Win" ELSE "Lose"
              /\ bets'[k].payout_amount = IF won THEN exact ELSE 0
              /\ tokens'[player] = tokens[player] + bets'[k].payout_amount
              /\ tokens'[g] = tokens[g] - bets'[k].payout_amount ]_vars

\* the tier resolve_gacha is to store for pull i: the range of the byte
\* seed[i mod 32], raised to Rare by the pity rule on the tenth pull
ExpectedTier(vrf_result, i) ==
    IF i = 9 /\ \A j \in 0..8 : from_random(vrf_result[j % 32]) = Common
    THEN Rare
    ELSE from_random(vrf_result[i % 32])

\* the exact sum of stake * multiplier_bps / 10000 over the first n tiers
RECURSIVE ExactGachaPayout(_, _, _)
ExactGachaPayout(cost_per_pull, tiers, n) ==
    IF n = 0 THEN 0
    ELSE ExactGachaPayout(cost_per_pull, tiers, n - 1)
         + (cost_per_pull * multiplier_bps(tiers[n - 1])) \div 10000

\* C18: resolve_gacha stores for pull i the tier of the byte seed[i mod 32]
\* (0-189 Common, 190-240 Rare, 241-252 Epic, 253-255 Legendary),
\* total_payout is the exact sum over the pull_count stored tiers of
\* stake_per_pull * multiplier_bps / 10000, and exactly total_payout moves
\* from the escrow to a player.
C18_TiersAndPayout ==
    [][ (lastResult'.op = "resolve_gacha" /\ lastResult'.err = "Ok")
        => LET pk == lastResult'.target
               g == pk[1]
               p == pulls'[pk]
           IN /\ \A i \in 0..(p.pull_count - 1) :
                     p.tiers[i] = ExpectedTier(p.vrf_result, i)
              /\ p.total_payout =
                     ExactGachaPayout(games[g].config.min_bet, p.tiers, p.pull_count)
              /\ tokens'[g] = tokens[g] - p.total_payout
              /\ tokens'["alice"] + tokens'["bob"] =
                     tokens["alice"] + tokens["bob"] + p.total_payout ]_vars

\* C19: every pool satisfies min_bet <= max_bet and house_edge_bps < 10000.
C19_ConfigBounds ==
    \A g \in DOMAIN games :
        /\ games[g].config.min_bet <= games[g].config.max_bet
        /\ games[g].config.house_edge_bps < 10000

(***************************************************************************)
(* Two players staking against one funded coin-flip pool, with no          *)
(* withdrawal: whatever the escrow holds is the funding plus the stakes.   *)
(***************************************************************************)
InitAdmission ==
    /\ games = <<>>
    /\ bets = <<>>
    /\ rounds = <<>>
    /\ participants = <<>>
    /\ pulls = <<>>
    /\ tokens = [w \in Wallets \cup Slugs |->
                   IF w = "auth" THEN 20
                   ELSE IF w = "alice" THEN 10
                   ELSE IF w = "bob" THEN 15 ELSE 0]
    /\ lamports = [w \in Wallets \cup Slugs |-> IF w \in Players THEN 1 ELSE 0]
    /\ now = 1
    /\ overflow_checks \in BOOLEAN
    /\ lastResult = [op |-> "none", signer |-> "none", target |-> <<>>, err |-> "Ok"]

NextAdmission ==
    \/ initialize_game({"CoinFlip"}, {DefaultLike})
    \/ fund_pool
    \/ play_coinflip(Players, {10, 15})
    \/ resolve_coinflip({"vrf"}, Players, CoinSeeds)

SpecAdmission == InitAdmission /\ [][NextAdmission]_vars

\* C20: the admission check reserves nothing.  Every admitted wager passed
\* the solvency check on its own (the escrow before the call covered that
\* wager's maximum payout) and the call only added the stake to the escrow;
\* the state C20_Reached, in which the Pending wagers' maximum payouts
\* together exceed the escrow, is reachable by such admissions alone.
C20_EachAdmissionSolvent ==
    [][ (lastResult'.op = "play_coinflip" /\ lastResult'.err = "Ok")
        => LET k == lastResult'.target
               g == k[1]
           IN /\ tokens[g] >= MaxPayout(bets'[k].bet_amount,
                                        games[g].config.house_edge_bps)
              /\ tokens'[g] = tokens[g] + bets'[k].bet_amount ]_vars

\* two Pending wagers on one pool whose maximum payouts sum to more than the
\* pool's escrow
C20_Reached ==
    /\ <<"g1", "alice">> \in DOMAIN bets
    /\ <<"g1", "bob">> \in DOMAIN bets
    /\ bets[<<"g1", "alice">>].outcome = "Pending"
    /\ bets[<<"g1", "bob">>].outcome = "Pending"
    /\ MaxPayout(bets[<<"g1", "alice">>].bet_amount,
                 games["g1"].config.house_edge_bps)
       + MaxPayout(bets[<<"g1", "bob">>].bet_amount,
                   games["g1"].config.house_edge_bps)
       > tokens["g1"]

(***************************************************************************)
(* Token conservation                                                      *)
(***************************************************************************)
RECURSIVE SumTokens(_, _)
SumTokens(t, accts) ==
    IF accts = {} THEN 0
    ELSE LET a == CHOOSE x \in accts : TRUE
         IN t[a] + SumTokens(t, accts \ {a})

TokenAccounts == Wallets \cup Slugs

\* the amount an instruction that succeeded has recorded for its transfer
StatedAmount(op, target) ==
    IF op = "play_coinflip" THEN bets'[target].bet_amount
    ELSE IF op = "resolve_coinflip" THEN bets'[target].payout_amount
    ELSE IF op = "join_crash"
         THEN participants'[<<target[1], games[target[1]].current_round,
                              target[2]>>].bet_amount
    ELSE IF op = "cashout_crash"
         THEN participants'[<<target[1], games[target[1]].current_round,
                              target[2]>>].payout
    ELSE IF op = "resolve_gacha" THEN pulls'[target].total_payout
    ELSE IF op = "pull_gacha"
         THEN games'[target[1]].total_volume - games[target[1]].total_volume
    ELSE -1

C22_PaysOwnPlayerFromOwnPool ==
    [][ ( /\ lastResult'.op = "resolve_gacha"
          /\ lastResult'.err = "Ok" )
        => LET pull_result == pulls[lastResult'.target]
           IN \A a \in TokenAccounts :
                 /\ tokens'[a] > tokens[a] => a = pull_result.player
                 /\ tokens'[a] < tokens[a] => a = pull_result.game ]_vars

\* C23: round instructions are confined to their own game variant.
\* draw_jackpot and enter_jackpot never succeed on a round of a Crash pool;
\* join_crash, cashout_crash and resolve_crash never succeed on a round of a
\* Jackpot pool; no step of draw_jackpot ends a Betting round of a Crash pool.
C23_RoundOpsOwnVariant ==
    [][ LET op == lastResult'.op
            g == lastResult'.target[1]
        IN /\ ( op \in {"draw_jackpot", "enter_jackpot"} /\ lastResult'.err = "Ok" )
                 => games[g].game_type # "Crash"
           /\ ( op \in {"join_crash", "cashout_crash", "resolve_crash"}
                /\ lastResult'.err = "Ok" )
                 => games[g].game_type # "Jackpot"
           /\ op = "draw_jackpot" =>
                 \A k \in DOMAIN rounds :
                     ( /\ games[k[1]].game_type = "Crash"
                       /\ rounds[k].phase = "Betting" )
                     => rounds'[k].phase = "Betting" ]_vars

\* C24: no instruction ever sets a round's phase to Active.  In every
\* reachable state every round is Betting or Ended, the last cashout_crash
\* (if any) has failed, and no participant has cashed_out = TRUE or a
\* non-zero payout or cash-out multiplier.
C24_NeverActive ==
    /\ \A k \in DOMAIN rounds : rounds[k].phase \in {"Betting", "Ended"}
    /\ lastResult.op = "cashout_crash" => lastResult.err # "Ok"
    /\ \A pk \in DOMAIN participants :
          /\ ~participants[pk].cashed_out
          /\ participants[pk].payout = 0
          /\ participants[pk].cashout_multiplier = 0

\* a participant with a stake on a round that has been resolved (Ended
\* straight from Betting) has asked for a cash-out and has been refused
C24_Witness ==
    /\ lastResult.op = "cashout_crash"
    /\ lastResult.err = "RoundNotBetting"
    /\ \E pk \in DOMAIN participants :
          /\ pk[1] = lastResult.target[1]
          /\ pk[3] = lastResult.target[2]
          /\ participants[pk].bet_amount > 0
          /\ rounds[<<pk[1], pk[2]>>].phase = "Ended"
          /\ rounds[<<pk[1], pk[2]>>].result.kind = "u32"

\* C25: there is at most one coin-flip wager record per (pool, player) over
\* the whole history.  A record is never removed and keeps its pool and
\* player; a play_coinflip by a player who already has a record on the pool,
\* Pending or resolved, fails and moves no token and no lamport and leaves
\* the record as it is.
C25_OneWagerPerPlayer ==
    [][ /\ \A k \in DOMAIN bets :
              /\ k \in DOMAIN bets'
              /\ bets'[k].game = k[1] /\ bets'[k].player = k[2]
        /\ ( /\ lastResult'.op = "play_coinflip"
             /\ lastResult'.target \in DOMAIN bets )
           => /\ lastResult'.err # "Ok"
              /\ UNCHANGED <<bets, tokens, lamports, games>> ]_vars

\* a player whose wager has been resolved, and who holds enough tokens and
\* lamports for another one, has been refused a second wager on the pool
C25_Witness ==
    /\ lastResult.op = "play_coinflip"
    /\ lastResult.err = "AccountInUse"
    /\ lastResult.target \in DOMAIN bets
    /\ bets[lastResult.target].outcome \in {"Win", "Lose"}
    /\ LET config == games[lastResult.target[1]].config
           player == lastResult.target[2]
       IN /\ config.min_bet <= 2 /\ 2 <= config.max_bet
          /\ tokens[player] >= 2
          /\ lamports[player] >= config.platform_fee_lamports
          /\ tokens[lastResult.target[1]] >= MaxPayout(2, config.house_edge_bps)

\* the error code an instruction returns: that of the account validation
\* when it fails, that of the handler otherwise
Outcome(check, out) == IF check # "Ok" THEN check ELSE out.err

\* C26: every admitted stake lies within the pool's bounds.  A successful
\* play_coinflip, join_crash, enter_jackpot or pull_gacha moves an amount a
\* with min_bet <= a <= max_bet into the escrow; and enter_jackpot with
\* ticket_amount = 0 on a pool with min_bet > 0 is rejected with BetTooSmall
\* and creates no participant.
C26_StakeWithinBounds ==
    [][ /\ ( /\ lastResult'.op \in {"play_coinflip", "join_crash", "enter_jackpot",
                                    "pull_gacha"}
             /\ lastResult'.err = "Ok" )
           => LET g == lastResult'.target[1]
                  a == tokens'[g] - tokens[g]
              IN /\ games[g].config.min_bet <= a
                 /\ a <= games[g].config.max_bet
        /\ \A g \in DOMAIN games, player \in Players :
              games[g].config.min_bet > 0 =>
                  LET check == EnterJackpot(Accounts, player, g)
                      out == IF check # "Ok" THEN Fail(Accounts, check)
                             ELSE enter_handler(Accounts, overflow_checks, player, g, 0)
                  IN /\ Outcome(check, out) = "BetTooSmall"
                     /\ Commit(Accounts, out).participants = participants ]_vars

\* C27: in every reachable state each pool has at most one round that is
\* not Ended, and that round is the one numbered current_round, the only
\* one join_crash can address.
C27_OneOpenRound ==
    /\ \A g \in DOMAIN games :
          Cardinality({k \in DOMAIN rounds :
                          k[1] = g /\ rounds[k].phase # "Ended"}) <= 1
    /\ \A k \in DOMAIN rounds :
          rounds[k].phase # "Ended" => k[2] = games[k[1]].current_round

\* C28: no payout or solvency computation silently wraps.  Whenever an
\* instruction that multiplies a stake by a basis-point multiplier succeeds
\* (on a pool whose house_edge_bps is at most 10000), the value it used is
\* the exact product: play_coinflip tested the escrow against the exact
\* potential payout, a Won wager, a cash-out and a gacha batch store the
\* exact payout, and draw_jackpot pays the pool less the exact house cut.
C28_NoSilentWrap ==
    [][ ( /\ lastResult'.err = "Ok"
          /\ lastResult'.op \in {"play_coinflip", "resolve_coinflip", "cashout_crash",
                                 "resolve_gacha", "draw_jackpot"}
          /\ games[lastResult'.target[1]].config.house_edge_bps <= 10000 )
        => LET op == lastResult'.op
               k == lastResult'.target
               g == k[1]
               config == games[g].config
           IN /\ op = "play_coinflip" =>
                    tokens[g] >= MaxPayout(bets'[k].bet_amount, config.house_edge_bps)
              /\ (op = "resolve_coinflip" /\ bets'[k].outcome = "Win") =>
                    bets'[k].payout_amount =
                        MaxPayout(bets[k].bet_amount, config.house_edge_bps)
              /\ op = "cashout_crash" =>
                    LET p == participants'[<<g, games[g].current_round, k[2]>>]
                    IN p.payout = (p.bet_amount * p.cashout_multiplier) \div 10000
              /\ op = "resolve_gacha" =>
                    pulls'[k].total_payout =
                        ExactGachaPayout(config.min_bet, pulls'[k].tiers,
                                         pulls'[k].pull_count)
              /\ op = "draw_jackpot" =>
                    tokens[g] - tokens'[g] =
                        rounds[k].pool_size
                        - (rounds[k].pool_size * config.house_edge_bps) \div 10000 ]_vars

(***************************************************************************)
(* A pool late in its life.  play_handler and pull_handler read only the   *)
(* pool's cumulative counters, so the wagers of earlier wallets are kept   *)
(* as the counters they left behind: `count` earlier wagers that staked    *)
(* `volume` in all on a pool whose max_bet is the top of the range, each   *)
(* paying the platform fee on a CoinFlip pool; the stakes were since       *)
(* withdrawn by the authority and the escrow funded with 20.               *)
(***************************************************************************)
WideBounds == GameConfig(2, U64Mod - 1, 200, 1)

PriorVolume ==
    { [count |-> 0, volume |-> 0],
      [count |-> 2, volume |-> U64Mod - 2],
      [count |-> 2, volume |-> U64Mod - 20] }

InitVolume ==
    /\ \E prior \in PriorVolume, game_type \in {"CoinFlip", "Gacha"} :
          LET fees == IF game_type = "CoinFlip"
                      THEN prior.count * WideBounds.platform_fee_lamports ELSE 0
          IN /\ games = "g1" :> [authority |-> "auth", game_type |-> game_type,
                                 config |-> WideBounds, is_active |-> TRUE,
                                 total_volume |-> prior.volume,
                                 total_fees |-> fees,
                                 current_round |-> 0, created_at |-> 1]
             /\ lamports = [w \in Wallets \cup Slugs |->
                               IF w \in Players THEN 1
                               ELSE IF w = "g1" THEN fees ELSE 0]
    /\ bets = <<>>
    /\ rounds = <<>>
    /\ participants = <<>>
    /\ pulls = <<>>
    /\ tokens = [w \in Wallets \cup Slugs |->
                   IF w \in {"auth", "g1", "alice"} THEN 20
                   ELSE IF w = "bob" THEN 2 ELSE 0]
    /\ now = 1
    /\ overflow_checks \in BOOLEAN
    /\ lastResult = [op |-> "none", signer |-> "none", target |-> <<>>, err |-> "Ok"]

NextVolume ==
    \/ fund_pool
    \/ play_coinflip(Players, {2})
    \/ resolve_coinflip({"vrf"}, Players, CoinSeeds)
    \/ pull_gacha(Players)
    \/ resolve_gacha({"vrf"}, {"alice"}, {Seed(189, 0, 0), Seed(190, 0, 255)})

SpecVolume == InitVolume /\ [][NextVolume]_vars

\* the errors play_handler and pull_handler return before they reach the
\* pool's counters
BeforeCounters ==
    {"BetTooSmall", "BetTooLarge", "InsufficientEscrow", "InsufficientFunds",
     "InsufficientLamports", "InvalidPullCount"}

\* C29: the pool's cumulative counters never wrap.  A successful
\* play_coinflip adds exactly the bet to total_volume and exactly the
\* platform fee to total_fees, a successful pull_gacha adds exactly the total
\* cost to total_volume; a failed one leaves counters and balances as they
\* were; and a call that reaches the counters with an addition that would
\* leave the u64 range fails with the error Overflow.
C29_CountersExactOrOverflow ==
    [][ /\ lastResult'.op \in {"play_coinflip", "pull_gacha"} =>
              LET g == lastResult'.target[1]
                  paid == tokens'[g] - tokens[g]
              IN IF lastResult'.err = "Ok"
                 THEN /\ games'[g].total_volume = games[g].total_volume + paid
                      /\ games'[g].total_volume < U64Mod
                      /\ games'[g].total_fees < U64Mod
                      /\ games'[g].total_fees - games[g].total_fees =
                             lamports'[g] - lamports[g]
                      /\ lastResult'.op = "play_coinflip" =>
                             /\ paid = bets'[lastResult'.target].bet_amount
                             /\ lamports'[g] - lamports[g] =
                                    games[g].config.platform_fee_lamports
                 ELSE UNCHANGED <<games, tokens, lamports>>
        /\ \A g \in DOMAIN games, player \in Players :
              LET game == games[g]
                  played == play_handler(Accounts, overflow_checks, player, g, 2, "Heads")
                  pulled == pull_handler(Accounts, player, g, 1)
              IN /\ ( /\ PlayCoinflip(Accounts, player, g) = "Ok"
                      /\ played.err \notin BeforeCounters
                      /\ game.total_volume + 2 >= U64Mod )
                    => played.err = "Overflow"
                 /\ ( /\ PullGacha(Accounts, player, g) = "Ok"
                      /\ pulled.err \notin BeforeCounters
                      /\ game.total_volume + game.config.min_bet >= U64Mod )
                    => pulled.err = "Overflow" ]_vars

(***************************************************************************)
(* A pool early and late in its life.  start_round_handler reads only the  *)
(* pool's counter and the address of the next round, so of the rounds a    *)
(* long-lived pool has had, the first and the latest are kept (both        *)
(* Ended, never joined).                                                   *)
(***************************************************************************)
PriorRounds == {0, U32Mod - 2}

EndedRound(g, n) ==
    [game |-> g, round_number |-> n, phase |-> "Ended", pool_size |-> 0,
     participant_count |-> 0, vrf_result |-> Seed(1, 0, 0),
     result |-> [kind |-> "u32", v |-> calculate_crash_point(Seed(1, 0, 0)),
                 key |-> "none"],
     started_at |-> 1, betting_ends_at |-> 11, ended_at |-> 1]

InitRounds ==
    /\ \E prior \in PriorRounds :
          /\ games = "g1" :> [authority |-> "auth", game_type |-> "Crash",
                              config |-> DefaultLike, is_active |-> TRUE,
                              total_volume |-> 0, total_fees |-> 0,
                              current_round |-> prior, created_at |-> 1]
          /\ rounds = IF prior = 0 THEN <<>>
                      ELSE <<"g1", 1>> :> EndedRound("g1", 1)
                           @@ <<"g1", prior>> :> EndedRound("g1", prior)
    /\ bets = <<>>
    /\ participants = <<>>
    /\ pulls = <<>>
    /\ tokens = [w \in Wallets \cup Slugs |->
                   IF w = "auth" THEN 20
                   ELSE IF w = "alice" THEN BigBet
                   ELSE IF w = "bob" THEN 2 ELSE 0]
    /\ lamports = [w \in Wallets \cup Slugs |-> IF w = "alice" THEN 1 ELSE 0]
    /\ now = 1
    /\ overflow_checks \in BOOLEAN
    /\ lastResult = [op |-> "none", signer |-> "none", target |-> <<>>, err |-> "Ok"]

NextRounds ==
    \/ start_crash_round
    \/ join_crash(Players, {2})
    \/ resolve_crash({"vrf"}, {Seed(1, 0, 0)})
    \/ Tick

SpecRounds == InitRounds /\ [][NextRounds]_vars

\* C30: a successful start_crash_round increments the pool's current_round
\* by exactly one and creates one round, numbered with the new counter, in
\* phase Betting with pool_size 0, participant_count 0, an all-zero seed and
\* betting deadline = start time + 10, leaving every other round as it was;
\* the new number is greater than the number of every earlier round of the
\* pool, also at the u32 limit of the counter.  (A step that advances the
\* clock is not an instruction.)
C30_RoundNumbering ==
    [][ ( /\ lastResult'.op = "start_crash_round"
          /\ lastResult'.err = "Ok"
          /\ now' = now )
        => LET g == lastResult'.target[1]
               n == games'[g].current_round
               k == <<g, n>>
           IN /\ n = games[g].current_round + 1
              /\ k \notin DOMAIN rounds
              /\ DOMAIN rounds' = DOMAIN rounds \cup {k}
              /\ \A j \in DOMAIN rounds : rounds'[j] = rounds[j] /\ j[1] = g => j[2] < n
              /\ rounds'[k].game = g
              /\ rounds'[k].round_number = n
              /\ rounds'[k].phase = "Betting"
              /\ rounds'[k].pool_size = 0
              /\ rounds'[k].participant_count = 0
              /\ rounds'[k].vrf_result = ZeroSeed
              /\ rounds'[k].started_at = now
              /\ rounds'[k].betting_ends_at = now + 10 ]_vars

\* C31: the pity rule only ever raises a tier.  For every pull i of a
\* resolved batch the stored tier is not lower than the tier from_random
\* gives for seed[i mod 32]; when pulls 0-8 are Common and the byte of pull
\* 9 maps to Epic or Legendary, pull 9 stores that tier, not Rare.
C31_PityOnlyRaises ==
    \A pk \in DOMAIN pulls :
        pulls[pk].resolved =>
            \A i \in 0..(pulls[pk].pull_count - 1) :
                pulls[pk].tiers[i] >= from_random(pulls[pk].vrf_result[i % 32])

\* pull counts outside 1..=10 (pulls is a u8)
BadPullCounts == {0, 11, 255}

\* C32: pull_gacha, on a call whose accounts validate, rejects a pull count
\* outside 1..10 with InvalidPullCount having moved no token and written no
\* record, and a step that ends InvalidPullCount changes nothing; every
\* batch has a pull_count in 1..10 and tier entries at index >= pull_count
\* equal to 0 (all ten while it is unresolved); a resolved batch never
\* changes again, and resolve_gacha addressed to it fails with
\* AlreadyResolved and pays nothing.
C32_PullCountAndResolvedOnce ==
    [][ /\ \A g \in DOMAIN games, player \in Players, n \in BadPullCounts :
              PullGacha(Accounts, player, g) = "Ok" =>
                  /\ pull_handler(Accounts, player, g, n).err = "InvalidPullCount"
                  /\ pull_handler(Accounts, player, g, n).st = Accounts
        /\ lastResult'.err = "InvalidPullCount" => UNCHANGED <<Records, Balances>>
        /\ \A pk \in DOMAIN pulls' :
              /\ pulls'[pk].pull_count \in 1..10
              /\ \A i \in 0..9 :
                    (i >= pulls'[pk].pull_count \/ ~pulls'[pk].resolved)
                        => pulls'[pk].tiers[i] = 0
        /\ \A pk \in DOMAIN pulls :
              /\ pk \in DOMAIN pulls'
              /\ pulls[pk].resolved => pulls'[pk] = pulls[pk]
              /\ pulls'[pk].resolved # pulls[pk].resolved =>
                    /\ lastResult'.op = "resolve_gacha"
                    /\ lastResult'.target = pk
                    /\ lastResult'.err = "Ok"
        /\ ( /\ lastResult'.op = "resolve_gacha"
             /\ pulls[lastResult'.target].resolved )
           => /\ lastResult'.err = "AlreadyResolved"
              /\ UNCHANGED <<Records, Balances>> ]_vars

\* a second resolve_gacha has been refused on a resolved single pull that
\* won a prize above Common, in a state where another player's pull with a
\* bad count would reach the handler
C32_Witness ==
    /\ lastResult.op = "resolve_gacha"
    /\ lastResult.err = "AlreadyResolved"
    /\ pulls[lastResult.target].resolved
    /\ pulls[lastResult.target].pull_count = 1
    /\ pulls[lastResult.target].tiers[0] # Common
    /\ pulls[lastResult.target].total_payout > 0
    /\ \E player \in Players : PullGacha(Accounts, player, "g1") = "Ok"

(***************************************************************************)
(* Drawing a round.  The pools are initialized with a zero min_bet, with a *)
(* house edge above 100%, or with a min_bet of one unit, which lets one    *)
(* stake buy more tickets than a u32 counts; alice holds enough tokens     *)
(* for such a stake.                                                       *)
(***************************************************************************)
OverEdge == GameConfig(2, 20, 20000, 0)
ManyTickets == GameConfig(1, U64Mod - 1, 5, 0)

DrawStakes == {2, U32Mod, U32Mod + 1}
DrawSeeds == {ZeroSeed, Seed(1, 0, 0), AllFF}

InitDraw ==
    /\ games = <<>>
    /\ bets = <<>>
    /\ rounds = <<>>
    /\ participants = <<>>
    /\ pulls = <<>>
    /\ tokens = [w \in Wallets \cup Slugs |->
                   IF w = "auth" THEN 20
                   ELSE IF w = "alice" THEN U32Mod + 1
                   ELSE IF w = "bob" THEN 2 ELSE 0]
    /\ lamports = [w \in Wallets \cup Slugs |-> 0]
    /\ now = 1
    /\ overflow_checks \in BOOLEAN
    /\ lastResult = [op |-> "none", signer |-> "none", target |-> <<>>, err |-> "Ok"]

NextDraw ==
    \/ initialize_game({"Crash"}, {ZeroMin, OverEdge, ManyTickets})
    \/ start_crash_round
    \/ join_crash(Players, DrawStakes)
    \/ draw_jackpot({"vrf"}, {"alice"}, DrawSeeds)

SpecDraw == InitDraw /\ [][NextDraw]_vars

\* the exact house cut of a pool
ExactCut(pool_size, house_edge_bps) == (pool_size * house_edge_bps) \div 10000

\* C33: draw_jackpot transfers exactly payout = pool_size - pool_size *
\* house_edge_bps / 10000 (truncated) from the escrow to the winner; for
\* every round of every pool the house cut is at most pool_size, so that
\* 0 <= payout <= pool_size and the subtraction does not underflow.
C33_JackpotPayout ==
    [][ /\ \A k \in DOMAIN rounds :
              ExactCut(rounds[k].pool_size, games[k[1]].config.house_edge_bps)
                  <= rounds[k].pool_size
        /\ ( /\ lastResult'.op = "draw_jackpot"
             /\ lastResult'.err = "Ok" )
           => LET k == lastResult'.target
                  g == k[1]
                  paid == tokens[g] - tokens'[g]
                  cut == ExactCut(rounds[k].pool_size, games[g].config.house_edge_bps)
              IN /\ paid = rounds[k].pool_size - cut
                 /\ 0 <= paid /\ paid <= rounds[k].pool_size
                 /\ tokens'["alice"] + tokens'["bob"] + tokens'["vrf"] + tokens'["auth"]
                      = tokens["alice"] + tokens["bob"] + tokens["vrf"] + tokens["auth"]
                        + paid ]_vars

\* the first four seed bytes as a little-endian u32, modulo t (t > 0)
RandomMod(vrf_result, t) ==
    LET random == RandomU32(vrf_result)
    IN (MulMod(random[2] % t, Limb % t, t) + (random[1] % t)) % t

\* the number of tickets of a round: pool_size / min_bet, none when min_bet = 0
Tickets(k) ==
    IF games[k[1]].config.min_bet = 0 THEN 0
    ELSE rounds[k].pool_size \div games[k[1]].config.min_bet

\* C34: the winning ticket index draw_jackpot computes for a round is the
\* first four seed bytes, read as a little-endian u32, modulo the round's
\* ticket count pool_size / min_bet, so 0 <= index < tickets whenever the
\* round has tickets; drawing a round with no tickets (empty pool, or
\* min_bet = 0) fails and changes no round and no balance.
C34_WinnerIndex ==
    [][ /\ \A k \in DOMAIN rounds, vrf_result \in DrawSeeds :
              Tickets(k) > 0 =>
                  LET index == calculate_jackpot_winner(vrf_result,
                                                        Tickets(k) % U32Mod)
                  IN /\ index.ok
                     /\ index.v = RandomMod(vrf_result, Tickets(k))
                     /\ 0 <= index.v /\ index.v < Tickets(k)
        /\ ( /\ lastResult'.op = "draw_jackpot"
             /\ lastResult'.target \in DOMAIN rounds
             /\ Tickets(lastResult'.target) = 0 )
           => /\ lastResult'.err # "Ok"
              /\ UNCHANGED <<rounds, tokens, lamports>> ]_vars

(***************************************************************************)
(* A crash round some time after it started.  Round 1 was started at time  *)
(* 1 and alice joined it with the minimum stake; the clock now reads 1, or *)
(* one of the later times of ClockTimes.                                   *)
(***************************************************************************)
\* the shortest wait whose product with 100 leaves the u32 range
LongWait == (U32Mod \div 100) + 1

ClockTimes == {1, 1 + LongWait, 1 + U32Mod}

InitLate ==
    /\ games = "g1" :> [authority |-> "auth", game_type |-> "Crash",
                        config |-> DefaultLike, is_active |-> TRUE,
                        total_volume |-> 0, total_fees |-> 0,
                        current_round |-> 1, created_at |-> 1]
    /\ rounds = <<"g1", 1>> :>
                   [game |-> "g1", round_number |-> 1, phase |-> "Betting",
                    pool_size |-> 2, participant_count |-> 1,
                    vrf_result |-> ZeroSeed, result |-> ZeroResult,
                    started_at |-> 1, betting_ends_at |-> 11, ended_at |-> 0]
    /\ participants = <<"g1", 1, "alice">> :>
                         [player |-> "alice", round |-> <<"g1", 1>>,
                          bet_amount |-> 2, cashed_out |-> FALSE,
                          cashout_multiplier |-> 0, payout |-> 0,
                          joined_at |-> 1, cashed_out_at |-> 0]
    /\ bets = <<>>
    /\ pulls = <<>>
    /\ tokens = [w \in Wallets \cup Slugs |->
                   IF w = "auth" THEN 20
                   ELSE IF w = "alice" THEN BigBet - 2
                   ELSE IF w \in {"bob", "g1"} THEN 2 ELSE 0]
    /\ lamports = [w \in Wallets \cup Slugs |-> IF w = "alice" THEN 1 ELSE 0]
    /\ now \in ClockTimes
    /\ overflow_checks \in BOOLEAN
    /\ lastResult = [op |-> "none", signer |-> "none", target |-> <<>>, err |-> "Ok"]

NextLate ==
    \/ fund_pool
    \/ withdraw_fees
    \/ join_crash(Players, {2})
    \/ cashout_crash(Players)
    \/ resolve_crash({"vrf"}, CrashSeeds)
    \/ Tick

SpecLate == InitLate /\ [][NextLate]_vars

\* what a cash-out is to record for a participant: 10000 + elapsed * 100
\* basis points and bet_amount * multiplier / 10000
ExactCashout(p, elapsed) ==
    /\ p.cashed_out
    /\ p.cashout_multiplier = 10000 + elapsed * 100
    /\ p.cashout_multiplier >= 10000
    /\ p.payout = (p.bet_amount * p.cashout_multiplier) \div 10000
    /\ p.payout >= p.bet_amount

StakeOps == {"play_coinflip", "join_crash", "enter_jackpot", "pull_gacha"}

\* C36: a pool's total_volume is the exact sum of the stakes admitted against
\* it.  It never decreases, and every successful play_coinflip, join_crash,
\* enter_jackpot or pull_gacha raises it by exactly the stake the instruction
\* moved into the pool's escrow.
C36_VolumeSumsAllStakes ==
    [][ /\ \A g \in DOMAIN games :
              /\ g \in DOMAIN games'
              /\ games'[g].total_volume >= games[g].total_volume
        /\ ( /\ lastResult'.op \in StakeOps
             /\ lastResult'.err = "Ok"
             /\ now' = now )
           => LET g == lastResult'.target[1]
              IN games'[g].total_volume - games[g].total_volume =
                     tokens'[g] - tokens[g] ]_vars

====
